---- MODULE Spec2Model ----
(***************************************************************************)
(* Model of fims_indexing.cpp (the variable-season version): the folded    *)
(* (year, season, age) index of model_base, and the population ->          *)
(* subpopulation partitioning, evaluation and finalization of population.  *)
(*                                                                         *)
(* size_t values are modelled as naturals; within the bounds below no      *)
(* product comes near 2^64, so no arithmetic wraps.  A std::vector is a    *)
(* 1-based sequence: the C++ element v[i] is v[i + 1] here.  A std::map is *)
(* a function whose DOMAIN is the key set.  A shared_ptr<area> is the      *)
(* object_id of the area it points to.                                     *)
(***************************************************************************)
EXTENDS Integers, Sequences, FiniteSets, TLC

VARIABLES
    id_g,        \* model_base::id_g, the static object counter
    areas,       \* the caller's std::vector<std::shared_ptr<area>> (area objects)
    pop,         \* the population object, NoPop before its construction
    nPartitions, \* number of initialize_subpopulations calls made
    status,      \* "ok": every call returned normally (no operation throws);
                 \* "crashed": an out-of-range read ended the process
    oobRead,     \* the last initialize_subpopulations read areas_ out of range
    lastOp,      \* the last operation called
    out,         \* what the last finalize call printed (<<>> for other calls)
    finalizeRun, \* number of finalize calls in a row ending here, capped at 2
    prevOut,     \* when finalizeRun = 2: what the finalize call before printed
    q,           \* the last get_index or get_seasons query and its results
    mathCall,    \* the last fims::gamma or fims::lgamma call and its outcome
    par          \* the concurrent evaluation: the cells each process has left

vars == <<id_g, areas, pop, nPartitions, status, oobRead, lastOp, out, finalizeRun, prevOut, q, mathCall, par>>

----------------------------------------------------------------------------
(* Bounds of the model *)

(* Largest nyears, largest row of season offsets, largest nages. *)
MaxYears == 2
MaxSeasons == 2
MaxAges == 2
(* Largest nsexes argument, and size of the caller's area vector. *)
MaxSexes == 2
MaxAreas == 2
(* Cap of the object counter id_g. *)
MaxObjects == 7
(* Number of initialize_subpopulations calls the driver makes at most. *)
MaxPartitions == 2

(* An uninitialized size_t member (nsexes_ before partitioning, nseasons_ *)
(* after the variable-season constructor).                                *)
Uninit == -1

(* A default-constructed (null) shared_ptr<area>. *)
NullArea == -2

(* A pointer that is neither null nor the address of a constructed area. *)
WildArea == -3

NoPop == [object_id |-> Uninit]
NoQuery == [year |-> Uninit]
NoCall == [fn |-> "none"]
NoPar == [start |-> NoPop, todo |-> <<>>, last |-> <<>>]
EmptyMap == [k \in {} |-> <<>>]

----------------------------------------------------------------------------
(* model_base *)

Max(a, b) == IF a < b THEN b ELSE a

(* Variant: the loop keeps the size of the row it visits, not the maximum. *)
RECURSIVE seasons_max_loop_last(_, _, _, _)
seasons_max_loop_last(season_offsets, nyears, i, acc) ==
    IF i >= nyears THEN acc
    ELSE seasons_max_loop_last(season_offsets, nyears, i + 1,
                               Len(season_offsets[i + 1]))

RECURSIVE seasons_max_loop(_, _, _, _)
seasons_max_loop(season_offsets, nyears, i, acc) ==
    IF i >= nyears THEN acc
    ELSE seasons_max_loop(season_offsets, nyears, i + 1,
                          Max(acc, Len(season_offsets[i + 1])))

(* Constructor for variable season data. *)
model_base_variable(nyears, season_offsets, nages, id) ==
    [object_id       |-> id,
     nyears_         |-> nyears,
     nseasons_       |-> Uninit,
     nages_          |-> nages,
     season_offsets_ |-> season_offsets,
     seasons_max_    |-> seasons_max_loop(season_offsets, nyears, 0, 0)]

(* One row of season offsets (s + 1) / n, s = 0 .. n - 1, each offset kept *)
(* as the pair <<numerator, denominator>>.                                 *)
OffsetRow(n) == [s \in 1..n |-> <<s, n>>]

(* Constructor for fixed season data. *)
model_base_fixed(nyears, nseasons, nages, id) ==
    [object_id       |-> id,
     nyears_         |-> nyears,
     nseasons_       |-> nseasons,
     nages_          |-> nages,
     season_offsets_ |-> [i \in 1..nyears |-> OffsetRow(nseasons)],
     seasons_max_    |-> nseasons]

(* Variant: the season term loses its stride nages_. *)
get_index3_flat(mb, year, season, age) ==
    year * mb.seasons_max_ * mb.nages_ + season + age

get_index3(mb, year, season, age) ==
    year * mb.seasons_max_ * mb.nages_ + season * mb.nages_ + age

get_index2(mb, year, season) ==
    year * mb.seasons_max_ * mb.nages_ + season

get_seasons(mb, year) == Len(mb.season_offsets_[year + 1])

----------------------------------------------------------------------------
(* area, population_base, subpopulation, population: constructors *)

area(nyears, nseasons, nages, id) == model_base_fixed(nyears, nseasons, nages, id)

population_base_fixed(nyears, nseasons, nages, ages, id) ==
    model_base_fixed(nyears, nseasons, nages, id) @@ [ages |-> ages]

population_base_variable(nyears, season_offsets, nages, id) ==
    model_base_variable(nyears, season_offsets, nages, id) @@ [ages |-> <<>>]

subpopulation_variable(nyears, season_offsets, nages, id) ==
    LET b == population_base_variable(nyears, season_offsets, nages, id)
    IN  b @@ [some_derived_quantities |->
                  [k \in 1..(nyears * b.seasons_max_ * nages) |-> 0],
              area_ |-> NullArea]

population_fixed(nyears, nseasons, nages, ages, id) ==
    population_base_fixed(nyears, nseasons, nages, ages, id)
        @@ [areas_ |-> <<>>, subpopulation_ |-> EmptyMap, nsexes_ |-> Uninit]

population_variable(nyears, season_offsets, nages, id) ==
    population_base_variable(nyears, season_offsets, nages, id)
        @@ [areas_ |-> <<>>, subpopulation_ |-> EmptyMap, nsexes_ |-> Uninit]

----------------------------------------------------------------------------
(* std::map<size_t, std::vector<...>>::operator[]: a missing key is inserted *)
(* with an empty vector.                                                     *)

map_index(m, k) == IF k \in DOMAIN m THEN m ELSE m @@ (k :> <<>>)

RECURSIVE map_index_upto(_, _)
map_index_upto(m, n) ==
    IF n <= 0 THEN m ELSE map_index(map_index_upto(m, n - 1), n - 1)

(* The value of the lookup subpopulation_[i]. *)
sub_pops_of(p, i) ==
    IF i \in DOMAIN p.subpopulation_ THEN p.subpopulation_[i] ELSE <<>>

----------------------------------------------------------------------------
(* population::initialize_subpopulations *)

(* The read this->areas_[i]; out of range it is undefined behaviour and  *)
(* yields junk[i] in a run that goes on.                                 *)
areas_read(areas_, i, junk) ==
    IF i < Len(areas_) THEN areas_[i + 1] ELSE junk[i]

(* The sex indices whose inner loop reads areas_ out of range. *)
oob_sexes(nsexes, areas_) ==
    {i \in 0..(nsexes - 1) : Len(areas_) > 0 /\ i >= Len(areas_)}

(* The subpopulation made in iteration (i, j), with object id `id`. *)
new_sub_pop(p, areas_, i, j, junk, id) ==
    [subpopulation_variable(p.nyears_, p.season_offsets_, p.nages_, id)
        EXCEPT !.area_ = areas_read(areas_, i, junk)]

(* Variant: the inner loop stops one area early (j < size() - 1). *)
sex_row_short(p, areas_, i, junk, id0) ==
    [j1 \in 1..(Len(areas_) - 1) |->
        new_sub_pop(p, areas_, i, j1 - 1, junk, id0 + i * Len(areas_) + (j1 - 1))]

(* Variant: the subpopulations of one sex all get the id of the first    *)
(* (the counter is not advanced inside the j loop).                      *)
sex_row_same_id(p, areas_, i, junk, id0) ==
    [j1 \in 1..Len(areas_) |->
        new_sub_pop(p, areas_, i, j1 - 1, junk, id0 + i * Len(areas_))]

(* The subpopulations pushed back for sex i, in the order of the j loop. *)
sex_row(p, areas_, i, junk, id0) ==
    [j1 \in 1..Len(areas_) |->
        new_sub_pop(p, areas_, i, j1 - 1, junk, id0 + i * Len(areas_) + (j1 - 1))]

(* Variant: each touched list is cleared before the new subpopulations *)
(* are pushed back.                                                    *)
initialize_subpopulations_reset(p, nsexes, arglist, upto, junk, id0) ==
    LET old     == p.subpopulation_
        touched == IF Len(arglist) = 0 THEN {} ELSE 0..(upto - 1)
    IN  [p EXCEPT
            !.nsexes_ = nsexes,
            !.areas_ = arglist,
            !.subpopulation_ =
                [k \in DOMAIN old \cup touched |->
                    IF k \in touched
                    THEN sex_row(p, arglist, k, junk, id0) ELSE old[k]]]

(* The population after the outer loop ran for i = 0 .. upto - 1. *)
initialize_subpopulations(p, nsexes, arglist, upto, junk, id0) ==
    LET old     == p.subpopulation_
        touched == IF Len(arglist) = 0 THEN {} ELSE 0..(upto - 1)
    IN  [p EXCEPT
            !.nsexes_ = nsexes,
            !.areas_ = arglist,
            !.subpopulation_ =
                [k \in DOMAIN old \cup touched |->
                    (IF k \in DOMAIN old THEN old[k] ELSE <<>>)
                    \o (IF k \in touched
                        THEN sex_row(p, arglist, k, junk, id0) ELSE <<>>)]]

----------------------------------------------------------------------------
(* The (year, season, age) loop nest shared by evaulate_subpopulations and *)
(* subpopulation::finalize: y < nyears_, s < get_seasons(y), a < nages_.   *)

year_cells(mb, y) ==
    [k \in 1..(get_seasons(mb, y) * mb.nages_) |->
        <<y, (k - 1) \div mb.nages_, (k - 1) % mb.nages_>>]

RECURSIVE cells_from(_, _)
cells_from(mb, y) ==
    IF y >= mb.nyears_ THEN <<>> ELSE year_cells(mb, y) \o cells_from(mb, y + 1)

(* Variant: the season loop runs over the whole rectangle, padding cells *)
(* included (s < seasons_max_).                                          *)
rect_cells(mb) ==
    [k \in 1..(mb.nyears_ * mb.seasons_max_ * mb.nages_) |->
        <<(k - 1) \div (mb.seasons_max_ * mb.nages_),
          ((k - 1) \div mb.nages_) % mb.seasons_max_,
          (k - 1) % mb.nages_>>]

cells(mb) == cells_from(mb, 0)

----------------------------------------------------------------------------
(* subpopulation::calculate_some_life_history_1 and                       *)
(* population::evaulate_subpopulations                                    *)

(* Variant: the value stored is off by one. *)
calculate_some_life_history_1_off(sp, index) ==
    IF index < Len(sp.some_derived_quantities)
    THEN [sp EXCEPT !.some_derived_quantities[index + 1] = index + 1]
    ELSE sp

calculate_some_life_history_1(sp, index) ==
    IF index < Len(sp.some_derived_quantities)
    THEN [sp EXCEPT !.some_derived_quantities[index + 1] = index]
    ELSE sp

RECURSIVE evaluate_cells(_, _, _, _)
evaluate_cells(p, sp, cs, k) ==
    IF k > Len(cs) THEN sp
    ELSE evaluate_cells(p,
            calculate_some_life_history_1(sp,
                get_index3(p, cs[k][1], cs[k][2], cs[k][3])),
            cs, k + 1)

(* n is the value read from nsexes_. *)
evaulate_subpopulations(p, n) ==
    LET m == map_index_upto(p.subpopulation_, n)
    IN  [p EXCEPT !.subpopulation_ =
            [k \in DOMAIN m |->
                IF k < n
                THEN [j1 \in 1..Len(m[k]) |-> evaluate_cells(p, m[k][j1], cells(p), 1)]
                ELSE m[k]]]

----------------------------------------------------------------------------
(* subpopulation::finalize and population::finalize *)

(* The value printed for cell `index`. *)
derived_read(sp, index) ==
    IF index < Len(sp.some_derived_quantities)
    THEN sp.some_derived_quantities[index + 1] ELSE Uninit

(* Variant: the records of the whole rectangle are printed. *)
sub_finalize_rect(sp) ==
    LET cs == rect_cells(sp)
    IN  [k \in 1..Len(cs) |->
            [year |-> cs[k][1], season |-> cs[k][2], age |-> cs[k][3],
             value |-> derived_read(sp, get_index3(sp, cs[k][1], cs[k][2], cs[k][3]))]]

(* The records subpopulation::finalize prints, in the order printed. *)
sub_finalize(sp) ==
    LET cs == cells(sp)
    IN  [k \in 1..Len(cs) |->
            [year |-> cs[k][1], season |-> cs[k][2], age |-> cs[k][3],
             value |-> derived_read(sp, get_index3(sp, cs[k][1], cs[k][2], cs[k][3]))]]

sub_report(sp) == [id |-> sp.object_id, records |-> sub_finalize(sp)]

RECURSIVE finalize_from(_, _, _)
finalize_from(m, i, n) ==
    IF i >= n THEN <<>>
    ELSE [j1 \in 1..Len(m[i]) |-> sub_report(m[i][j1])] \o finalize_from(m, i + 1, n)

(* What population::finalize prints; n is the value read from nsexes_. *)
population_finalize_out(p, n) ==
    finalize_from(map_index_upto(p.subpopulation_, n), 0, n)

(* Variant: finalize clears each derived array once it is printed. *)
population_finalize_drain(p, n) ==
    LET m == map_index_upto(p.subpopulation_, n)
    IN  [p EXCEPT !.subpopulation_ =
            [k \in DOMAIN m |->
                [j1 \in 1..Len(m[k]) |->
                    [m[k][j1] EXCEPT !.some_derived_quantities =
                        [c \in DOMAIN @ |-> 0]]]]]

(* The population after population::finalize: subpopulation_[i] has *)
(* inserted every missing key i < n.                                *)
population_finalize(p, n) ==
    [p EXCEPT !.subpopulation_ = map_index_upto(p.subpopulation_, n)]

----------------------------------------------------------------------------
(* Inputs *)

Years == 0..MaxYears
SeasonCounts == 0..MaxSeasons
AgeCounts == 0..MaxAges
SexCounts == 0..MaxSexes

(* The age labels handed to the fixed-season constructor: 1, 2, ... *)
AgeLabels(nages) == [k \in 1..nages |-> k]

(* Per-year season-offset tables with one row per year, rows of any length. *)
SeasonTables(nyears) == [1..nyears -> {OffsetRow(n) : n \in SeasonCounts}]

(* The first k shared pointers of the caller's area vector. *)
AreaList(k) == [j1 \in 1..k |-> areas[j1].object_id]

(* What a read of areas_ past its end may yield in a run that goes on: a *)
(* null pointer, or some pointer that is not the element asked for.      *)
JunkRefs == {NullArea, WildArea}

(* The values a read of nsexes_ may yield. *)
read_nsexes(p) == IF p.nsexes_ = Uninit THEN SexCounts ELSE {p.nsexes_}

(* The lifecycle state of the population: "Partitioned" after exactly one *)
(* initialize_subpopulations call.                                        *)
phase ==
    IF nPartitions = 0 THEN "Unpartitioned"
    ELSE IF nPartitions = 1 THEN "Partitioned" ELSE "Repartitioned"

----------------------------------------------------------------------------
(* Initial state: the process has constructed no object. *)

Init ==
    /\ id_g = 0
    /\ areas = <<>>
    /\ pop = NoPop
    /\ nPartitions = 0
    /\ status = "ok"
    /\ oobRead = FALSE
    /\ lastOp = "none"
    /\ out = <<>>
    /\ finalizeRun = 0
    /\ prevOut = <<>>
    /\ q = NoQuery
    /\ mathCall = NoCall
    /\ par = NoPar

(* What every call other than finalize does to the record of the calls. *)
Called(op) ==
    /\ lastOp' = op
    /\ out' = <<>>
    /\ finalizeRun' = 0
    /\ prevOut' = <<>>
    /\ UNCHANGED <<q, mathCall, par>>

(* std::make_shared<area>(years, seasons, ages.size()), pushed on the     *)
(* vector; the driver makes its areas before it partitions.               *)
ConstructArea ==
    /\ status = "ok"
    /\ nPartitions = 0
    /\ Len(areas) < MaxAreas
    /\ id_g < MaxObjects
    /\ areas' = Append(areas, area(MaxYears, MaxSeasons, MaxAges, id_g))
    /\ id_g' = id_g + 1
    /\ Called("area")
    /\ UNCHANGED <<pop, nPartitions, status, oobRead>>

(* population pop(years, seasons, ages.size(), ages) *)
ConstructPopulationFixed(nyears, nseasons, nages) ==
    /\ status = "ok"
    /\ pop = NoPop
    /\ id_g < MaxObjects
    /\ pop' = population_fixed(nyears, nseasons, nages, AgeLabels(nages), id_g)
    /\ id_g' = id_g + 1
    /\ Called("population")
    /\ UNCHANGED <<areas, nPartitions, status, oobRead>>

(* population pop2(years, season_offsets, ages.size()) *)
ConstructPopulationVariable(nyears, season_offsets, nages) ==
    /\ status = "ok"
    /\ pop = NoPop
    /\ id_g < MaxObjects
    /\ pop' = population_variable(nyears, season_offsets, nages, id_g)
    /\ id_g' = id_g + 1
    /\ Called("population")
    /\ UNCHANGED <<areas, nPartitions, status, oobRead>>

(* The driver calls initialize_subpopulations at most MaxPartitions times. *)
MayPartition == nPartitions < MaxPartitions

(* pop.initialize_subpopulations(nsexes, areas) returns. *)
Partition(nsexes, k) ==
    /\ status = "ok"
    /\ pop # NoPop
    /\ MayPartition
    /\ id_g + nsexes * k <= MaxObjects
    /\ \E junk \in [oob_sexes(nsexes, AreaList(k)) -> JunkRefs] :
          pop' = initialize_subpopulations(pop, nsexes, AreaList(k), nsexes, junk, id_g)
    /\ id_g' = id_g + nsexes * k
    /\ nPartitions' = nPartitions + 1
    /\ oobRead' = (oob_sexes(nsexes, AreaList(k)) # {})
    /\ Called("partition")
    /\ UNCHANGED <<areas, status>>

(* pop.initialize_subpopulations(nsexes, areas) reads areas_[i] past the  *)
(* end for the first time (i = areas.size(), j = 0) and the process ends  *)
(* there: the rows of the sexes before are complete, one more             *)
(* subpopulation has been constructed.                                    *)
PartitionCrash(nsexes, k) ==
    /\ status = "ok"
    /\ pop # NoPop
    /\ MayPartition
    /\ id_g + nsexes * k <= MaxObjects
    /\ oob_sexes(nsexes, AreaList(k)) # {}
    /\ pop' = initialize_subpopulations(pop, nsexes, AreaList(k), k, <<>>, id_g)
    /\ id_g' = id_g + k * k + 1
    /\ nPartitions' = nPartitions + 1
    /\ oobRead' = TRUE
    /\ status' = "crashed"
    /\ Called("partition")
    /\ UNCHANGED <<areas>>

(* pop.evaulate_subpopulations() *)
Evaluate ==
    /\ status = "ok"
    /\ pop # NoPop
    /\ \E n \in read_nsexes(pop) : pop' = evaulate_subpopulations(pop, n)
    /\ Called("evaluate")
    /\ UNCHANGED <<id_g, areas, nPartitions, status, oobRead>>

(* pop.finalize() *)
Finalize ==
    /\ status = "ok"
    /\ pop # NoPop
    /\ \E n \in read_nsexes(pop) :
          /\ pop' = population_finalize(pop, n)
          /\ out' = population_finalize_out(pop, n)
    /\ lastOp' = "finalize"
    /\ finalizeRun' = IF finalizeRun = 0 THEN 1 ELSE 2
    /\ prevOut' = IF finalizeRun = 0 THEN <<>> ELSE out
    /\ UNCHANGED <<id_g, areas, nPartitions, status, oobRead, q, mathCall, par>>

(* The grids of the lifecycle specification: the largest fixed grid, and *)
(* the jagged table whose year y (from 0) has (y % MaxSeasons) + 1        *)
(* seasons.                                                               *)
JaggedTable == [y1 \in 1..MaxYears |-> OffsetRow(((y1 - 1) % MaxSeasons) + 1)]

Next ==
    \/ ConstructArea
    \/ ConstructPopulationFixed(MaxYears, MaxSeasons, 1)
    \/ ConstructPopulationVariable(MaxYears, JaggedTable, 1)
    \/ \E nsexes \in SexCounts, k \in 0..Len(areas) : Partition(nsexes, k)
    \/ \E nsexes \in SexCounts, k \in 0..Len(areas) : PartitionCrash(nsexes, k)
    \/ Evaluate
    \/ Finalize

(* Any call of any operation, in any order, from an empty process. *)
Spec == Init /\ [][Next]_vars

----------------------------------------------------------------------------
(* The driver of main(): the areas are made first, then a population on  *)
(* any grid within the bounds, partitioned once, then evaluated and      *)
(* finalized any number of times.                                        *)

RECURSIVE main_areas(_)
main_areas(n) ==
    IF n = 0 THEN <<>>
    ELSE Append(main_areas(n - 1), area(MaxYears, MaxSeasons, MaxAges, n - 1))

InitGrid ==
    /\ id_g = MaxAreas
    /\ areas = main_areas(MaxAreas)
    /\ pop = NoPop
    /\ nPartitions = 0
    /\ status = "ok"
    /\ oobRead = FALSE
    /\ lastOp = "area"
    /\ out = <<>>
    /\ finalizeRun = 0
    /\ prevOut = <<>>
    /\ q = NoQuery
    /\ mathCall = NoCall
    /\ par = NoPar

NextGrid ==
    \/ \E nyears \in Years, nseasons \in SeasonCounts, nages \in AgeCounts :
          ConstructPopulationFixed(nyears, nseasons, nages)
    \/ \E nyears \in Years, nages \in AgeCounts :
          \E season_offsets \in SeasonTables(nyears) :
             ConstructPopulationVariable(nyears, season_offsets, nages)
    \/ /\ phase = "Unpartitioned"
       /\ \E nsexes \in SexCounts, k \in 0..Len(areas) : Partition(nsexes, k)
    \/ /\ phase = "Unpartitioned"
       /\ \E nsexes \in SexCounts, k \in 0..Len(areas) : PartitionCrash(nsexes, k)
    \/ /\ phase = "Partitioned"
       /\ Evaluate
    \/ /\ phase = "Partitioned"
       /\ Finalize

SpecGrid == InitGrid /\ [][NextGrid]_vars

----------------------------------------------------------------------------
(* A caller of the two public get_index overloads of a population on any *)
(* grid within the bounds, with arguments inside the rectangular domain  *)
(* [0, nyears_) x [0, seasons_max_) x [0, nages_).                       *)

Query(year, season, age) ==
    /\ status = "ok"
    /\ q' = [year |-> year, season |-> season, age |-> age,
             index3 |-> get_index3(pop, year, season, age),
             index2 |-> get_index2(pop, year, season)]
    /\ lastOp' = "get_index"
    /\ UNCHANGED <<id_g, areas, pop, nPartitions, status, oobRead, out,
                   finalizeRun, prevOut, mathCall, par>>

NextIndex ==
    \/ \E nyears \in Years, nseasons \in SeasonCounts, nages \in AgeCounts :
          ConstructPopulationFixed(nyears, nseasons, nages)
    \/ \E nyears \in Years, nages \in AgeCounts :
          \E season_offsets \in SeasonTables(nyears) :
             ConstructPopulationVariable(nyears, season_offsets, nages)
    \/ /\ pop # NoPop
       /\ \E year \in 0..(pop.nyears_ - 1), season \in 0..(pop.seasons_max_ - 1),
             age \in 0..(pop.nages_ - 1) : Query(year, season, age)

SpecIndex == Init /\ [][NextIndex]_vars

----------------------------------------------------------------------------
(* A caller of get_seasons on a population on any grid within the bounds; *)
(* the variable-season table may have more rows than nyears, and the year *)
(* asked for may lie past the grid.                                       *)

(* Per-year season-offset tables with at least nyears rows. *)
SeasonTablesAtLeast(nyears) ==
    UNION {[1..n -> {OffsetRow(c) : c \in SeasonCounts}] : n \in nyears..MaxYears}

(* The years whose read season_offsets_[year] stays inside the vector. *)
RowYears(mb) == 0..(Len(mb.season_offsets_) - 1)

(* get_seasons(year) returns: the size of the row when the vector has a    *)
(* row `year`; past the end of the vector the read is undefined behaviour *)
(* and yields any size in a run that goes on.                             *)
QuerySeasons(year) ==
    /\ status = "ok"
    /\ \E n \in (IF year \in RowYears(pop) THEN {get_seasons(pop, year)}
                  ELSE SeasonCounts) :
          q' = [year |-> year, seasons |-> n, error |-> "none"]
    /\ lastOp' = "get_seasons"
    /\ UNCHANGED <<id_g, areas, pop, nPartitions, status, oobRead, out,
                   finalizeRun, prevOut, mathCall, par>>

(* get_seasons(year) reads past the end of the vector and the process ends *)
(* there.                                                                  *)
QuerySeasonsCrash(year) ==
    /\ status = "ok"
    /\ year \notin RowYears(pop)
    /\ q' = [year |-> year, seasons |-> Uninit, error |-> "crash"]
    /\ status' = "crashed"
    /\ lastOp' = "get_seasons"
    /\ UNCHANGED <<id_g, areas, pop, nPartitions, oobRead, out,
                   finalizeRun, prevOut, mathCall, par>>

NextSeasons ==
    \/ \E nyears \in Years, nseasons \in SeasonCounts, nages \in AgeCounts :
          ConstructPopulationFixed(nyears, nseasons, nages)
    \/ \E nyears \in Years, nages \in AgeCounts :
          \E season_offsets \in SeasonTablesAtLeast(nyears) :
             ConstructPopulationVariable(nyears, season_offsets, nages)
    \/ /\ pop # NoPop
       /\ \E year \in Years : QuerySeasons(year)
    \/ /\ pop # NoPop
       /\ \E year \in Years : QuerySeasonsCrash(year)

SpecSeasons == Init /\ [][NextSeasons]_vars

----------------------------------------------------------------------------
(* evaulate_subpopulations run concurrently: one process per subpopulation *)
(* sub_pops[j] of a sex i < nsexes_, each making the calls                 *)
(* sub_pops[j]->calculate_some_life_history_1(get_index(y, s, a)) of its   *)
(* cells, one call per step, in any order.                                 *)

(* The table of the concurrent runs: year 0 has MaxSeasons seasons, every *)
(* later year none, so every later year is padding.                       *)
ParTable == [y1 \in 1..MaxYears |-> OffsetRow(IF y1 = 1 THEN MaxSeasons ELSE 0)]

(* The positions <<i, j + 1>> of the subpopulations the loops visit. *)
ParSlots(p) ==
    UNION {{<<i, j1>> : j1 \in 1..Len(sub_pops_of(p, i))} : i \in 0..(p.nsexes_ - 1)}

CellSet(mb) == {cells(mb)[k] : k \in 1..Len(cells(mb))}

(* Variant: the call goes to sub_pops[0], whatever j is. *)
cell_update_first(p, slot, index) ==
    [p EXCEPT !.subpopulation_[slot[1]][1] =
        calculate_some_life_history_1(@, index)]

(* sub_pops[j]->calculate_some_life_history_1(index) for the subpopulation *)
(* at position slot.                                                       *)
cell_update(p, slot, index) ==
    [p EXCEPT !.subpopulation_[slot[1]][slot[2]] =
        calculate_some_life_history_1(@, index)]

(* The areas and a population on ParTable are made and partitioned once; *)
(* every process has all its cells left.                                 *)
InitPar ==
    /\ id_g \in (MaxAreas + 1)..MaxObjects
    /\ areas = main_areas(MaxAreas)
    /\ \E nsexes \in SexCounts, k \in 0..MaxAreas :
          /\ id_g = MaxAreas + 1 + nsexes * k
          /\ \E junk \in [oob_sexes(nsexes, AreaList(k)) -> JunkRefs] :
                pop = initialize_subpopulations(
                          population_variable(MaxYears, ParTable, 1, MaxAreas),
                          nsexes, AreaList(k), nsexes, junk, MaxAreas + 1)
    /\ nPartitions = 1
    /\ status = "ok"
    /\ oobRead = (oob_sexes(pop.nsexes_, pop.areas_) # {})
    /\ lastOp = "partition"
    /\ out = <<>>
    /\ finalizeRun = 0
    /\ prevOut = <<>>
    /\ q = NoQuery
    /\ mathCall = NoCall
    /\ par = [start |-> pop,
              todo  |-> [slot \in ParSlots(pop) |-> CellSet(pop)],
              last  |-> <<>>]

(* One call of the process of `slot`, for one of the cells it has left. *)
ParStep(slot, cell) ==
    /\ status = "ok"
    /\ cell \in par.todo[slot]
    /\ LET index == get_index3(pop, cell[1], cell[2], cell[3])
       IN  /\ pop' = cell_update(pop, slot, index)
           /\ par' = [par EXCEPT !.todo[slot] = @ \ {cell},
                                 !.last = <<slot, index>>]
    /\ lastOp' = "evaluate_cell"
    /\ UNCHANGED <<id_g, areas, nPartitions, status, oobRead, out,
                   finalizeRun, prevOut, q, mathCall>>

NextPar == \E slot \in DOMAIN par.todo : \E cell \in par.todo[slot] : ParStep(slot, cell)

SpecPar == InitPar /\ [][NextPar]_vars

----------------------------------------------------------------------------
(* fims_math.hpp: fims::gamma and fims::lgamma.                            *)
(*                                                                         *)
(* An argument x is the integer xu = x * Unit.  The comparisons, floor and *)
(* the argument reduction are computed on xu as the code computes them on  *)
(* x.  A result is a record: error is "none" or "invalid_argument" (the    *)
(* exception thrown); exact tells that value is the number returned, which *)
(* the model computes where every operation of the code works on whole     *)
(* numbers (z = 0 in the polynomial loop); elsewhere the value returned is *)
(* a floating-point approximation the model does not compute.              *)

(* Resolution of the arguments: 1 / Unit = 0.0005, half the bound 0.001 of *)
(* the first interval.                                                     *)
Unit == 2 * 1000

(* Largest whole argument of the calls. *)
MaxArg == 13

InvalidArgument == [error |-> "invalid_argument", exact |-> FALSE, value |-> Uninit]
Approximate     == [error |-> "none", exact |-> FALSE, value |-> Uninit]
Exactly(v)      == [error |-> "none", exact |-> TRUE, value |-> v]

(* The coefficients p[] and q[], to the nearest whole number: the loop is  *)
(* computed at z = 0 only, where each one is multiplied by 0 or, for the   *)
(* last of q[], only has to be nonzero.                                    *)
gamma_p == <<-2, 25, -380, 629, 867, -31451, -36144, 66456>>
gamma_q == <<-31, 315, -1015, -3108, 22538, 4756, -134660, -115132>>

(* for (i = 0; i < 8; i++) { num = (num + p[i]) * z; den = den * z + q[i]; } *)
(* at a whole z; the result is the pair <<num, den>>.                        *)
RECURSIVE gamma_rational(_, _, _, _)
gamma_rational(num, den, z, i) ==
    IF i >= 8 THEN <<num, den>>
    ELSE gamma_rational((num + gamma_p[i + 1]) * z, den * z + gamma_q[i + 1], z, i + 1)

(* Variant: the correction loop makes one iteration fewer. *)
RECURSIVE gamma_product_short(_, _, _, _)
gamma_product_short(result, y, i, n) ==
    IF i + 1 >= n THEN result ELSE gamma_product_short(result * y, y + 1, i + 1, n)

(* for (i = 0; i < n; i++) result *= y++; *)
RECURSIVE gamma_product(_, _, _, _)
gamma_product(result, y, i, n) ==
    IF i >= n THEN result ELSE gamma_product(result * y, y + 1, i + 1, n)

(* The second interval, [0.001, 12). *)
gamma_second(xu) ==
    IF xu < Unit THEN Approximate
    ELSE LET n  == (xu \div Unit) - 1
             yu == xu - n * Unit
             zu == yu - Unit
         IN  IF zu # 0 THEN Approximate
             ELSE LET nd == gamma_rational(0, 1, 0, 0)
                  IN  IF nd[1] = 0 /\ nd[2] # 0
                      THEN Exactly(gamma_product(0 + 1, yu \div Unit, 0, n))
                      ELSE Approximate

RECURSIVE lgamma(_)

(* gamma past its argument check: the three intervals. *)
gamma_intervals(xu) ==
    IF xu * 1000 < Unit THEN Approximate
    ELSE IF xu < 12 * Unit THEN gamma_second(xu)
    ELSE IF xu * 1000 > 171624 * Unit THEN Approximate
    ELSE IF lgamma(xu).error # "none" THEN lgamma(xu) ELSE Approximate

(* Variant: the argument check lets 0 through (x < 0.0). *)
gamma_zero_allowed(xu) ==
    IF xu < 0 THEN InvalidArgument ELSE gamma_intervals(xu)

gamma(xu) ==
    IF xu <= 0 THEN InvalidArgument ELSE gamma_intervals(xu)

(* log(fabs(gamma(x))) for x < 12, the asymptotic series from 12 on. *)
lgamma(xu) ==
    IF xu <= 0 THEN InvalidArgument
    ELSE IF xu < 12 * Unit
         THEN LET g == gamma(xu)
              IN  IF g.error # "none" THEN g
                  ELSE IF g.exact /\ g.value = 1 THEN Exactly(0)
                  ELSE Approximate
    ELSE Approximate

(* The arguments of the calls: every quarter from -MaxArg to MaxArg, the *)
(* smallest magnitudes on both sides of 0, and one argument past 171.624. *)
MathArgs ==
    {k * (Unit \div 4) : k \in (0 - 4 * MaxArg)..(4 * MaxArg)}
        \cup {-1, 1} \cup {172 * Unit}

CallGamma(xu) ==
    /\ status = "ok"
    /\ mathCall' = [fn |-> "gamma", x |-> xu] @@ gamma(xu)
    /\ lastOp' = "gamma"
    /\ UNCHANGED <<id_g, areas, pop, nPartitions, status, oobRead, out,
                   finalizeRun, prevOut, q, par>>

CallLgamma(xu) ==
    /\ status = "ok"
    /\ mathCall' = [fn |-> "lgamma", x |-> xu] @@ lgamma(xu)
    /\ lastOp' = "lgamma"
    /\ UNCHANGED <<id_g, areas, pop, nPartitions, status, oobRead, out,
                   finalizeRun, prevOut, q, par>>

NextMath ==
    \/ \E xu \in MathArgs : CallGamma(xu)
    \/ \E xu \in MathArgs : CallLgamma(xu)

SpecMath == Init /\ [][NextMath]_vars

----------------------------------------------------------------------------
(* Properties *)

(* The positions <<sex, j>> of the map that hold a subpopulation. *)
SubpopSlots(p) ==
    UNION {{<<k, j1>> : j1 \in 1..Len(p.subpopulation_[k])} :
              k \in DOMAIN p.subpopulation_}

SubpopAt(p, slot) == p.subpopulation_[slot[1]][slot[2]]

(* The initialize_subpopulations call has returned, once. *)
PartitionedOnce == pop # NoPop /\ nPartitions = 1 /\ status = "ok"

(* C1: after partition(sexCount, areas), for every sex index i in          *)
(* [0, sexCount) and every area index j in [0, len(areas)), the j-th       *)
(* subpopulation of sex i's list is bound to areas[j].  Stated for the     *)
(* calls whose reads of the area list all stay in range.                   *)
C1_BoundToAreaJ ==
    (PartitionedOnce /\ ~oobRead) =>
        \A i \in 0..(pop.nsexes_ - 1), j \in 0..(Len(pop.areas_) - 1) :
            /\ j < Len(sub_pops_of(pop, i))
            /\ sub_pops_of(pop, i)[j + 1].area_ = pop.areas_[j + 1]

C3_StrideDecomposition ==
    q # NoQuery => q.index3 = q.index2 + q.age

(* The rectangular domain of the folded index of grid mb. *)
Rect(mb) ==
    (0..(mb.nyears_ - 1)) \X (0..(mb.seasons_max_ - 1)) \X (0..(mb.nages_ - 1))

(* C4: index3(year, season, age) is                                       *)
(* year*maxSeasonCount*ageCount + season*ageCount + age, and no other     *)
(* triple of the rectangular domain has the same offset.                  *)
C4_Index3Injective ==
    q # NoQuery =>
        /\ q.index3 = q.year * pop.seasons_max_ * pop.nages_
                        + q.season * pop.nages_ + q.age
        /\ \A t \in Rect(pop) :
              get_index3(pop, t[1], t[2], t[3]) = q.index3
                  => t = <<q.year, q.season, q.age>>

(* C4 witness: a query off every axis' origin on a grid with several  *)
(* seasons and ages.                                                  *)
C4_Witness ==
    /\ q # NoQuery
    /\ q.year > 0 /\ q.season > 0 /\ q.age > 0
    /\ pop.seasons_max_ > 1 /\ pop.nages_ > 1
    /\ q.index3 = q.year * pop.seasons_max_ * pop.nages_
                    + q.season * pop.nages_ + q.age

(* The cells of grid mb that are no padding: season < get_seasons(year). *)
RealCells(mb) ==
    UNION {{<<y, s, a>> : s \in 0..(get_seasons(mb, y) - 1), a \in 0..(mb.nages_ - 1)} :
              y \in 0..(mb.nyears_ - 1)}

SlotOfId(p, id) == CHOOSE slot \in SubpopSlots(p) : SubpopAt(p, slot).object_id = id

RecordKey(r) == <<r.year, r.season, r.age>>

(* C5: on any season grid, report() yields exactly one record for each   *)
(* (year, season, age) with season < seasonsInYear(year) and no other    *)
(* record, so year y contributes seasonsInYear(y) * ageCount records.    *)
C5_ReportRealCellsOnly ==
    (pop # NoPop /\ lastOp = "finalize") =>
        \A r \in 1..Len(out) :
            LET sp   == SubpopAt(pop, SlotOfId(pop, out[r].id))
                recs == out[r].records
            IN  /\ \A k \in 1..Len(recs) :
                      /\ RecordKey(recs[k]) \in RealCells(sp)
                      /\ recs[k].season < get_seasons(sp, recs[k].year)
                /\ \A t \in RealCells(sp) :
                      Cardinality({k \in 1..Len(recs) : RecordKey(recs[k]) = t}) = 1
                /\ \A y \in 0..(sp.nyears_ - 1) :
                      Cardinality({k \in 1..Len(recs) : recs[k].year = y})
                          = get_seasons(sp, y) * sp.nages_

(* C5 witness: a report of a subpopulation on a jagged grid: some year *)
(* has fewer seasons than seasons_max_, and records were printed.      *)
C5_Witness ==
    /\ pop # NoPop
    /\ lastOp = "finalize"
    /\ \E y \in 0..(pop.nyears_ - 1) :
          get_seasons(pop, y) > 0 /\ get_seasons(pop, y) < pop.seasons_max_
    /\ \E r \in 1..Len(out) : Len(out[r].records) > 1

LexLess(a, b) ==
    \/ a.year < b.year
    \/ a.year = b.year /\ a.season < b.season
    \/ a.year = b.year /\ a.season = b.season /\ a.age < b.age

(* The grid and partition of scenario A. *)
ScenarioA ==
    /\ pop.nyears_ = 2 /\ pop.nseasons_ = 2 /\ pop.nages_ = 2
    /\ pop.nsexes_ = 1 /\ Len(pop.areas_) = 1

(* C6: after partition followed by evaluateAll(), the report() of every  *)
(* subpopulation of the partition (sex index in [0, nsexes_)) yields its *)
(* records in lexicographic (year, season, age) order, each with the     *)
(* value index3(year, season, age); on the fixed 2 x 2 x 2 grid with 1   *)
(* sex and 1 area the values are 0, 1, ..., 7.                           *)
C6_ReportAfterEvaluate ==
    (pop # NoPop /\ lastOp = "evaluate" /\ nPartitions >= 1) =>
        /\ \A slot \in {t \in SubpopSlots(pop) : t[1] < pop.nsexes_} :
              LET sp   == SubpopAt(pop, slot)
                  recs == sub_finalize(sp)
              IN  /\ \A k \in 1..(Len(recs) - 1) : LexLess(recs[k], recs[k + 1])
                  /\ \A k \in 1..Len(recs) :
                        recs[k].value
                            = recs[k].year * sp.seasons_max_ * sp.nages_
                                + recs[k].season * sp.nages_ + recs[k].age
        /\ ScenarioA =>
              [k \in 1..8 |-> sub_finalize(SubpopAt(pop, <<0, 1>>))[k].value]
                  = <<0, 1, 2, 3, 4, 5, 6, 7>>

(* C6 witness: scenario A has been evaluated. *)
C6_Witness ==
    /\ pop # NoPop
    /\ lastOp = "evaluate"
    /\ nPartitions = 1
    /\ ScenarioA
    /\ Len(sub_finalize(SubpopAt(pop, <<0, 1>>))) = 8
    /\ SubpopAt(pop, <<0, 1>>).some_derived_quantities[8] = 7

(* C7: a finalize call on a partitioned population leaves the whole      *)
(* population unchanged (the key set and the lists of the mapping,       *)
(* nsexes_, the area list, every derived array) and the object counter.  *)
C7_FinalizeReadOnly ==
    [][(lastOp' = "finalize" /\ nPartitions >= 1)
          => (pop' = pop /\ id_g' = id_g /\ areas' = areas)]_vars

(* C8: on a partitioned population, two finalize calls in a row yield *)
(* the same output.                                                   *)
C8_FinalizeTwiceSame ==
    (finalizeRun = 2 /\ nPartitions >= 1) => out = prevOut

(* C8 witness: two finalize calls in a row after an evaluation, printing *)
(* the reports of two sexes with nonzero values.                         *)
C8_Witness ==
    /\ finalizeRun = 2
    /\ nPartitions >= 1
    /\ Len(out) > 1
    /\ \E r \in 1..Len(out) : \E k \in 1..Len(out[r].records) :
          out[r].records[k].value > 0

(* C9: a second partition call on a partitioned population fails with a *)
(* StateError and leaves the subpopulations, nsexes_ and the area list  *)
(* unchanged.                                                           *)
C9_RepartitionRejected ==
    [][(lastOp' = "partition" /\ nPartitions >= 1)
          => (status' = "StateError" /\ pop' = pop)]_vars

(* C10: evaluateAll() and finalize() on a population never partitioned  *)
(* fail with a StateError, update no cell, yield no record and leave    *)
(* the population unchanged.                                            *)
C10_UnpartitionedRejected ==
    [][(lastOp' \in {"evaluate", "finalize"} /\ nPartitions = 0)
          => (status' = "StateError" /\ pop' = pop /\ out' = <<>>)]_vars

(* C11: seasonsInYear(year) returns the length of that year's row of    *)
(* season offsets when 0 <= year < yearCount, and fails with an         *)
(* out-of-range error, returning no count, for every year >= yearCount. *)
C11_SeasonsInYearChecked ==
    (q # NoQuery /\ pop # NoPop) =>
        IF q.year < pop.nyears_
        THEN q.error = "none" /\ q.seasons = Len(pop.season_offsets_[q.year + 1])
        ELSE q.error = "out_of_range" /\ q.seasons = Uninit

(* The population was built by the variable-season constructor. *)
VariableBuilt(mb) == mb # NoPop /\ mb.nseasons_ = Uninit

(* C12: for every grid built by the variable-season constructor from     *)
(* yearCount and a table with at least yearCount rows of any lengths,    *)
(* maxSeasonCount is the maximum over y in [0, yearCount) of             *)
(* seasonsInYear(y), and 0 when yearCount is 0.                          *)
C12_MaxSeasonCount ==
    VariableBuilt(pop) =>
        /\ \A y \in 0..(pop.nyears_ - 1) : get_seasons(pop, y) <= pop.seasons_max_
        /\ pop.nyears_ > 0 =>
              \E y \in 0..(pop.nyears_ - 1) : get_seasons(pop, y) = pop.seasons_max_
        /\ pop.nyears_ = 0 => pop.seasons_max_ = 0

(* C12 witness: a variable-season grid whose first year is its longest   *)
(* and whose table has a row past yearCount.                             *)
C12_Witness ==
    /\ VariableBuilt(pop)
    /\ lastOp = "population"
    /\ pop.nyears_ > 0
    /\ Len(pop.season_offsets_) > pop.nyears_
    /\ get_seasons(pop, 0) = pop.seasons_max_
    /\ pop.seasons_max_ > 0
    /\ \E y \in RowYears(pop) : get_seasons(pop, y) # pop.seasons_max_

(* The subpopulations the population holds, as positions of its map. *)
HeldSlots == IF pop = NoPop THEN {} ELSE SubpopSlots(pop)

(* The object ids of every model_base object alive: the areas, the *)
(* population and the subpopulations it holds.                     *)
ObjectIds ==
    {areas[k].object_id : k \in 1..Len(areas)}
        \cup (IF pop = NoPop THEN {} ELSE {pop.object_id})
        \cup {SubpopAt(pop, slot).object_id : slot \in HeldSlots}

ObjectCount ==
    Len(areas) + (IF pop = NoPop THEN 0 ELSE 1) + Cardinality(HeldSlots)

SlotBefore(s1, s2) == s1[1] < s2[1] \/ (s1[1] = s2[1] /\ s1[2] < s2[2])

(* C13: after any sequence of constructions of areas, populations and    *)
(* the subpopulations made by partition, no two objects have the same    *)
(* object id, every object keeps its id, and an object constructed later *)
(* (by a later call, or later in the loops of one partition call) has a  *)
(* strictly larger id than every object constructed before it.           *)
C13_UniqueIncreasingIds ==
    [][/\ Cardinality(ObjectIds') = ObjectCount'
       /\ ObjectIds \subseteq ObjectIds'
       /\ \A id \in ObjectIds' \ ObjectIds :
             /\ id >= id_g /\ id < id_g'
             /\ \A o \in ObjectIds : o < id
       /\ \A s1, s2 \in HeldSlots' \ HeldSlots :
             SlotBefore(s1, s2) =>
                 SubpopAt(pop', s1).object_id < SubpopAt(pop', s2).object_id]_vars

(* C13 witness: two areas, a population and the subpopulations of two *)
(* partition calls are alive.                                         *)
C13_Witness ==
    /\ Len(areas) = 2
    /\ pop # NoPop
    /\ nPartitions = 2
    /\ lastOp = "partition"
    /\ Cardinality(HeldSlots) >= 3
    /\ Cardinality(ObjectIds) = ObjectCount

RECURSIVE Factorial(_)
Factorial(n) == IF n <= 0 THEN 1 ELSE n * Factorial(n - 1)

(* C14: for every whole argument n with 1 <= n < 12, gamma(n) returns *)
(* exactly (n - 1)!; gamma(5) is 24.                                  *)
C14_GammaFactorial ==
    /\ (/\ mathCall.fn = "gamma"
        /\ mathCall.x % Unit = 0
        /\ mathCall.x >= Unit
        /\ mathCall.x < 12 * Unit) =>
            /\ mathCall.error = "none"
            /\ mathCall.exact
            /\ mathCall.value = Factorial((mathCall.x \div Unit) - 1)
    /\ (mathCall.fn = "gamma" /\ mathCall.x = 5 * Unit) => mathCall.value = 24

(* C14 witness: gamma(5) has returned 24. *)
C14_Witness ==
    /\ mathCall.fn = "gamma"
    /\ mathCall.x = 5 * Unit
    /\ mathCall.error = "none"
    /\ mathCall.value = 24

(* C15: gamma(x) and lgamma(x) throw invalid_argument, returning no    *)
(* value, for every x <= 0 (x = 0 included), and never for x > 0.      *)
C15_DomainError ==
    mathCall # NoCall =>
        /\ mathCall.error = "invalid_argument" <=> mathCall.x <= 0
        /\ mathCall.error = "invalid_argument" => mathCall.value = Uninit
        /\ mathCall.error \in {"none", "invalid_argument"}

(* C15 witness: gamma(0) has thrown. *)
C15_Witness ==
    /\ mathCall.fn = "gamma"
    /\ mathCall.x = 0
    /\ mathCall.error = "invalid_argument"

(* A partition call on an already partitioned population returns. *)
RepartitionReturns ==
    lastOp' = "partition" /\ nPartitions >= 1 /\ status' = "ok"

(* C16 as stated: a second partition(sexCount2, areas2) call is allowed  *)
(* and discards the first subpopulation set: afterwards the list of      *)
(* every sex index in [0, sexCount2) holds only the len(areas2)          *)
(* subpopulations created by the second call.                            *)
C16_RepartitionDiscards ==
    [][RepartitionReturns =>
          \A i \in 0..(pop'.nsexes_ - 1) :
              /\ Len(sub_pops_of(pop', i)) = Len(pop'.areas_)
              /\ \A j1 \in 1..Len(sub_pops_of(pop', i)) :
                    sub_pops_of(pop', i)[j1].object_id >= id_g]_vars

(* C16 amended: a second partition(sexCount2, areas2) call that returns  *)
(* is allowed and appends: afterwards the list of every sex index in     *)
(* [0, sexCount2) holds the subpopulations it held before, unchanged and *)
(* in the same order, followed by the len(areas2) subpopulations created *)
(* by the second call; the lists of the other sexes are kept as they     *)
(* were.                                                                 *)
C16_RepartitionAppends ==
    [][RepartitionReturns =>
          /\ \A i \in 0..(pop'.nsexes_ - 1) :
                LET before == sub_pops_of(pop, i)
                    after  == sub_pops_of(pop', i)
                IN  /\ Len(after) = Len(before) + Len(pop'.areas_)
                    /\ SubSeq(after, 1, Len(before)) = before
                    /\ \A j1 \in (Len(before) + 1)..Len(after) :
                          /\ after[j1].object_id >= id_g
                          /\ after[j1].object_id < id_g'
          /\ \A k \in DOMAIN pop.subpopulation_ :
                k >= pop'.nsexes_ => sub_pops_of(pop', k) = pop.subpopulation_[k]]_vars

(* C16 witness: a second partition call has returned, and the list of *)
(* sex 0 holds subpopulations of both calls.                          *)
C16_Witness ==
    /\ pop # NoPop
    /\ nPartitions = 2
    /\ lastOp = "partition"
    /\ status = "ok"
    /\ Len(pop.areas_) >= 1
    /\ pop.nsexes_ >= 1
    /\ Len(sub_pops_of(pop, 0)) > Len(pop.areas_)
    /\ sub_pops_of(pop, 0)[1].object_id + Len(pop.areas_) * pop.nsexes_ < id_g

(* C17: every subpopulation created by partition carries the owning   *)
(* population's age-class list: its ages equal the population's ages  *)
(* and have length ageCount, whichever constructor built the          *)
(* population.                                                        *)
C17_SubpopulationAges ==
    (pop # NoPop /\ nPartitions >= 1) =>
        \A slot \in SubpopSlots(pop) :
            /\ SubpopAt(pop, slot).ages = pop.ages
            /\ Len(SubpopAt(pop, slot).ages) = pop.nages_

(* Every process of the concurrent evaluation has made all its calls. *)
ParDone == \A slot \in DOMAIN par.todo : par.todo[slot] = {}

(* C18: when the per-cell updates of evaluateAll() run as concurrent     *)
(* processes, one per (sex, subpopulation) pair, each taking its cells   *)
(* in any order, then in every interleaving each step writes one cell    *)
(* inside the derived array of its own subpopulation, changes nothing    *)
(* else of the population, no other subpopulation, no area binding and   *)
(* no area, and once every process is done the population equals the one *)
(* the sequential evaluateAll() produces from the same start.            *)
C18_ConcurrentEvaluate ==
    [][lastOp' = "evaluate_cell" =>
          LET slot  == par'.last[1]
              index == par'.last[2]
              own   == SubpopAt(pop, slot)
          IN  /\ par'.todo[slot] # par.todo[slot]
              /\ \A t \in DOMAIN par.todo \ {slot} : par'.todo[t] = par.todo[t]
              /\ index < Len(own.some_derived_quantities)
              /\ SubpopSlots(pop') = SubpopSlots(pop)
              /\ \A t \in SubpopSlots(pop) \ {slot} : SubpopAt(pop', t) = SubpopAt(pop, t)
              /\ SubpopAt(pop', slot) =
                    [own EXCEPT !.some_derived_quantities[index + 1] = index]
              /\ [pop' EXCEPT !.subpopulation_ = pop.subpopulation_] = pop
              /\ areas' = areas
              /\ ParDone' =>
                    pop' = evaulate_subpopulations(par.start, par.start.nsexes_)]_vars

(* C18 witness: several processes, two of them of the same sex, have all *)
(* finished and stored nonzero values.                                   *)
C18_Witness ==
    /\ lastOp = "evaluate_cell"
    /\ ParDone
    /\ \E s1, s2 \in DOMAIN par.todo : s1[1] = s2[1] /\ s1[2] # s2[2]
    /\ \E s1, s2 \in DOMAIN par.todo : s1[1] # s2[1]
    /\ \A slot \in DOMAIN par.todo :
          \E c \in DOMAIN SubpopAt(pop, slot).some_derived_quantities :
              SubpopAt(pop, slot).some_derived_quantities[c] > 0
    /\ pop = evaulate_subpopulations(par.start, par.start.nsexes_)

(* The offsets evaluateAll() passes to the subpopulations of population p. *)
EvaluateOffsets(p) == {get_index3(p, c[1], c[2], c[3]) : c \in CellSet(p)}

(* C19: for every partitioned population, fixed or variable seasons,     *)
(* the derived array of each subpopulation has                           *)
(* yearCount * maxSeasonCount * ageCount cells, every offset             *)
(* evaluateAll() passes to updateCell is below that size, the offsets    *)
(* are exactly those of the real cells, and every padding cell           *)
(* (season >= seasonsInYear(year)) still holds 0 after any number of     *)
(* evaluateAll() calls.                                                  *)
C19_OffsetsInRangePaddingZero ==
    (pop # NoPop /\ nPartitions >= 1) =>
        \A slot \in SubpopSlots(pop) :
            LET sp == SubpopAt(pop, slot)
            IN  /\ Len(sp.some_derived_quantities)
                      = pop.nyears_ * pop.seasons_max_ * pop.nages_
                /\ \A o \in EvaluateOffsets(pop) : o < Len(sp.some_derived_quantities)
                /\ EvaluateOffsets(pop)
                      = {get_index3(sp, t[1], t[2], t[3]) : t \in RealCells(sp)}
                /\ \A t \in Rect(sp) \ RealCells(sp) :
                      sp.some_derived_quantities[get_index3(sp, t[1], t[2], t[3]) + 1] = 0

(* C19 witness: an evaluated subpopulation on a jagged grid: a padding *)
(* cell holds 0 and a real cell after it holds its offset.             *)
C19_Witness ==
    /\ pop # NoPop
    /\ nPartitions >= 1
    /\ lastOp = "evaluate"
    /\ \E slot \in SubpopSlots(pop) :
          LET sp == SubpopAt(pop, slot)
          IN  \E t \in Rect(sp) \ RealCells(sp), r \in RealCells(sp) :
                  /\ get_index3(sp, t[1], t[2], t[3]) < get_index3(sp, r[1], r[2], r[3])
                  /\ sp.some_derived_quantities[get_index3(sp, t[1], t[2], t[3]) + 1] = 0
                  /\ sp.some_derived_quantities[get_index3(sp, r[1], r[2], r[3]) + 1]
                        = get_index3(sp, r[1], r[2], r[3])

(* C20: partition(sexCount, areas) never reads the area list at a       *)
(* position outside [0, len(areas)), for every sexCount >= 0 and every  *)
(* non-empty area list, sexCount > len(areas) included.                 *)
C20_AreaReadsInRange ==
    (lastOp = "partition" /\ Len(pop.areas_) > 0) => ~oobRead

====
